---------------------------- MODULE Spec2Model ----------------------------
(***************************************************************************)
(* Session state machines of the voices-V2 practice application.          *)
(*                                                                         *)
(* Three client pages and the VoiceAnalysis component are modelled,         *)
(* selected by the variable `page`:                                        *)
(*   "practice"    src/src/app/practice/[scenarioId]/page.tsx              *)
(*   "practiceAI"  src/unnamed/part_001 (practice page with the Gemini     *)
(*                 AI-interviewer switch and speech recognition)           *)
(*   "interview"   src/unnamed/part_000 (interview page)                   *)
(*   "voiceAnalysis"  VoiceAnalysis of page.tsx (generated report)         *)
(*                                                                         *)
(* The pages are React function components.  A handler invoked from the    *)
(* UI runs with the values of the latest render, which is the current      *)
(* state.  A callback created earlier (a setTimeout callback, a speech     *)
(* recognition handler, the continuation of an awaited fetch) keeps the    *)
(* values of the render that created it; those captured values are stored  *)
(* in the record that models the pending callback.  Refs (xxxRef.current)  *)
(* and functional state updates (setX(prev => ...)) read the live value.   *)
(***************************************************************************)
EXTENDS Integers, Sequences, FiniteSets, TLC

\* ------------------------------ bounds ---------------------------------
MaxAgents == 2
MaxInputs == 2
MaxToggles == 1
MaxSessions == 2
MaxEvents == 2

NULL == "null"
\* scheduledTurnRef.current = null (turn indexes are >= 0)
NoTurn == -1

VARIABLES
  page,                       \* which page component is mounted
  scenarioId,                 \* scenario?.id
  agents,                     \* useState<Agent[]>
  messages,                   \* useState<Message[]>
  convState,                  \* useState(initConversationState)
  sessionEnded,               \* useState(false)
  isActive,                   \* useState(true)
  useGeminiInterviewer,       \* useState(true)             (practiceAI)
  geminiConversationHistory,  \* useState<any[]>([])        (practiceAI)
  isGeminiProcessing,         \* useState(false)            (practiceAI)
  currentAgentIndex,          \* useState(0)                (practiceAI)
  scheduledTurnRef,           \* useRef<number | null>(null)
  agentResponseTimers,        \* pending timers of agentResponseTimers.current
  greetingTimers,             \* pending setTimeout(..., 2000) of the greeting effect
  hardcodedTimers,            \* pending setTimeout(..., 2000) of generateHardcodedResponse
  requests,                   \* fetch('/api/gemini/interview') calls in flight
  sessionActive,              \* useState(false)            (interview)
  conversationHistory,        \* useState<ConversationMessage[]>([]) (interview)
  isProcessing,               \* useState(false)            (interview)
  recognitionRef,             \* recognitionRef.current: <<>> (null) or <<values its handlers hold>>
  inputs,                     \* number of user utterances so far (typed or spoken)
  toggles,                    \* number of switch toggles (practiceAI), of
                              \* sessions started (interview) so far
  sinceTranscript,            \* ms from lastTranscriptTimeRef.current to the last final speech result
  speechRecognitionSupported, \* window.SpeechRecognition exists (speechSupported on the interview page)
  speechError,                \* useState<string | null>(null)  (interview)
  timeElapsed,                \* useState(0)
  effectiveDuration,          \* customDurationSec ?? scenario.duration ?? 0
  practiceSessions,           \* localStorage item "practice-sessions": <<>> (absent) or <<text>>
  fullTranscript,             \* useState(""), as the sequence of the final texts added
  interimTranscript,          \* the recognised text not yet final
  recognitionState,           \* the speech recogniser: off, on, or ending (stop() called, onend due)
  qaStartTime,                \* useState<number | null>(null), null kept as 0
  currentFlowSection,         \* useState<string>("intro")
  qaTimers,                   \* pending setTimeout(() => askQuestion(index), ...) of the Q&A
  ttsEnabled,                 \* useState (the stored TTS setting)
  voiceRandom,                \* values drawn by generateVoiceAnalysis (Math.random)
  analysis,                   \* VoiceAnalysis: analysis (<<>> is null)
  lastEvent                   \* what the last handler or callback did

vars == <<page, analysis, voiceRandom, ttsEnabled, qaTimers,
          currentFlowSection, qaStartTime, recognitionState,
          interimTranscript, fullTranscript, practiceSessions,
          effectiveDuration, timeElapsed, speechError,
          speechRecognitionSupported, sinceTranscript, scenarioId, agents,
          messages, convState, sessionEnded, isActive, useGeminiInterviewer,
          geminiConversationHistory, isGeminiProcessing, currentAgentIndex,
          scheduledTurnRef, agentResponseTimers, greetingTimers,
          hardcodedTimers, requests, sessionActive, conversationHistory,
          isProcessing, recognitionRef, inputs, toggles, lastEvent>>

PracticePages == {"practice", "practiceAI"}

\* timeElapsed === 30: the second at which the presentation's Q&A starts.
QaStartSec == 30

\* Ticks of the session timer since the start of the stretch explored: the
\* start of the session, or the second before the Q&A.
Ticks ==
  IF timeElapsed >= QaStartSec - 1 THEN timeElapsed - (QaStartSec - 1)
  ELSE timeElapsed

\* External events of a practice session so far: user utterances, switch
\* toggles and ticks of the session timer.
Events == inputs + toggles + Ticks

\* ------------------------- data of the pages ---------------------------
\* generateAgents(scenario): the agents of the scenario, in list order.
AgentIds == <<"agent-1", "agent-2", "agent-3", "agent-4">>
generateAgents(n) == SubSeq(AgentIds, 1, n)

\* Message { agentId, agentName, content, isUser }; content is kept as the
\* sequence of the pieces the code concatenates.
UserMessage(text) == [isUser |-> TRUE, agentId |-> "user", content |-> <<text>>]
AgentMessage(agentId, content) ==
  [isUser |-> FALSE, agentId |-> agentId, content |-> content]

ErrorPrefix == "Sorry, I encountered an error: "
\* `Sorry, I encountered an error: ${error.message}. Please try again.`
ErrorContent(errorMessage) == <<ErrorPrefix, errorMessage, ". Please try again.">>

Last(s) == s[Len(s)]
IsPrefix(s, t) == Len(s) <= Len(t) /\ SubSeq(t, 1, Len(s)) = s
RemoveAt(s, i) == SubSeq(s, 1, i - 1) \o SubSeq(s, i + 1, Len(s))

\* ------------------ @/lib/agent-responses (conversation state) ---------
initConversationState == [turnIndex |-> 0, awaitingAgentTurn |-> FALSE]
canGenerateAgentResponse(state) == state.awaitingAgentTurn
updateStateOnUserMessage(state) == [state EXCEPT !.awaitingAgentTurn = TRUE]

\* Mutant: the agent's response leaves awaitingAgentTurn as it found it.
advanceAfterAgentResponse_KeepsAwaiting(state, agentId) ==
  [state EXCEPT !.turnIndex = @ + 1]

advanceAfterAgentResponse(state, agentId) ==
  [turnIndex |-> state.turnIndex + 1, awaitingAgentTurn |-> FALSE]

\* Position of the last message of agent a in history h (0: never spoke).
LastSpokeAt(h, a) ==
  LET at == {i \in 1..Len(h) : ~h[i].isUser /\ h[i].agentId = a}
  IN IF at = {} THEN 0 ELSE CHOOSE i \in at : \A j \in at : j <= i

\* selectAgentToSpeak(messages, scenario, agents, "active-host"): null without
\* agents; otherwise not the most recent non-user speaker when there is more
\* than one agent, preferring the agent that spoke least recently, then list
\* order.
selectAgentToSpeak(h, ags) ==
  IF Len(ags) = 0 THEN NULL
  ELSE LET nonUser == {i \in 1..Len(h) : ~h[i].isUser}
           recent == IF nonUser = {} THEN NULL
                     ELSE h[CHOOSE i \in nonUser : \A j \in nonUser : j <= i].agentId
           cand == {k \in 1..Len(ags) : Len(ags) = 1 \/ ags[k] # recent}
           best == CHOOSE k \in cand :
                     \A l \in cand :
                       \/ LastSpokeAt(h, ags[k]) < LastSpokeAt(h, ags[l])
                       \/ /\ LastSpokeAt(h, ags[k]) = LastSpokeAt(h, ags[l])
                          /\ k <= l
       IN ags[best]

\* ----------------------------- events ----------------------------------
\* The record kept in lastEvent: the handler or callback that ran last and
\* what it decided.
\*   turn, calls  the turnIndex an agent timer was scheduled for, and how
\*                many scheduleAgentResponse calls reached it for that turn
\*   passed       the timer callback passed its checks
\*   live         the same checks pass on the state at fire time
\*   stale        convState.turnIndex at fire time differs from `turn`
\*   n            messages appended by a timer or greeting-response event
\*   advanced     the event changed convState
\*   cleared      timers cleared by handleEndSession
\*   outcome      how the awaited fetch ended
\*   gate         the Turn Gate's answer on the snapshot scheduleAgentResponse
\*                was called with
\*   elapsed      now - lastTranscriptTimeRef.current when a final speech
\*                result arrived
Event(op) ==
  [op |-> op, turn |-> 0, calls |-> 0, passed |-> FALSE, live |-> FALSE,
   stale |-> FALSE, n |-> 0, advanced |-> FALSE, cleared |-> 0,
   outcome |-> "", gate |-> FALSE, elapsed |-> 0]

\* The values a handler invoked from the UI sees: those of the latest render.
Render ==
  [agents |-> agents, sessionEnded |-> sessionEnded, convState |-> convState,
   messages |-> messages, timeElapsed |-> timeElapsed,
   fullTranscript |-> fullTranscript,
   isListening |-> (recognitionState = "on")]

\* --------------------------- practice pages ----------------------------
\* Mutant: scheduleAgentResponse without its session-ended check.
scheduleAgentResponse_IgnoresEnd(c, snapshot, ref, timers) ==
  IF Len(c.agents) = 0
    THEN [ref |-> ref, timers |-> timers]
  ELSE IF ~canGenerateAgentResponse(snapshot)
    THEN [ref |-> ref, timers |-> timers]
  ELSE IF ref = snapshot.turnIndex
    THEN [ref |-> ref,
          timers |-> [i \in 1..Len(timers) |->
                        IF timers[i].turn = snapshot.turnIndex
                          THEN [timers[i] EXCEPT !.calls = @ + 1]
                          ELSE timers[i]]]
  ELSE LET selected == selectAgentToSpeak(c.messages, c.agents)
       IN IF selected = NULL
            THEN [ref |-> NoTurn, timers |-> timers]
            ELSE [ref |-> snapshot.turnIndex,
                  timers |-> Append(timers,
                    [turn |-> snapshot.turnIndex,
                     sessionEnded |-> c.sessionEnded,
                     convState |-> c.convState,
                     selected |-> selected,
                     calls |-> 1])]

\* Mutant: scheduleAgentResponse selecting without the message history.
scheduleAgentResponse_NoHistory(c, snapshot, ref, timers) ==
  IF Len(c.agents) = 0 \/ c.sessionEnded
    THEN [ref |-> ref, timers |-> timers]
  ELSE IF ~canGenerateAgentResponse(snapshot)
    THEN [ref |-> ref, timers |-> timers]
  ELSE IF ref = snapshot.turnIndex
    THEN [ref |-> ref,
          timers |-> [i \in 1..Len(timers) |->
                        IF timers[i].turn = snapshot.turnIndex
                          THEN [timers[i] EXCEPT !.calls = @ + 1]
                          ELSE timers[i]]]
  ELSE LET selected == selectAgentToSpeak(<<>>, c.agents)
       IN IF selected = NULL
            THEN [ref |-> NoTurn, timers |-> timers]
            ELSE [ref |-> snapshot.turnIndex,
                  timers |-> Append(timers,
                    [turn |-> snapshot.turnIndex,
                     sessionEnded |-> c.sessionEnded,
                     convState |-> c.convState,
                     selected |-> selected,
                     calls |-> 1])]

\* scheduleAgentResponse(stateSnapshot), run with the render values c; gives
\* the new scheduledTurnRef.current and the new pending timers.  The timer
\* callback keeps c.sessionEnded and c.convState.
scheduleAgentResponse(c, snapshot, ref, timers) ==
  IF Len(c.agents) = 0 \/ c.sessionEnded
    THEN [ref |-> ref, timers |-> timers]
  ELSE IF ~canGenerateAgentResponse(snapshot)
    THEN [ref |-> ref, timers |-> timers]
  ELSE IF ref = snapshot.turnIndex
    THEN [ref |-> ref,
          timers |-> [i \in 1..Len(timers) |->
                        IF timers[i].turn = snapshot.turnIndex
                          THEN [timers[i] EXCEPT !.calls = @ + 1]
                          ELSE timers[i]]]
  ELSE LET selected == selectAgentToSpeak(c.messages, c.agents)
       IN IF selected = NULL
            THEN [ref |-> NoTurn, timers |-> timers]
            ELSE [ref |-> snapshot.turnIndex,
                  timers |-> Append(timers,
                    [turn |-> snapshot.turnIndex,
                     sessionEnded |-> c.sessionEnded,
                     convState |-> c.convState,
                     selected |-> selected,
                     calls |-> 1])]

\* Mutant: the callback without its Turn Gate check.
TimerCallbackPasses_NoGate(tm) ==
  /\ ~tm.sessionEnded
  /\ scheduledTurnRef = tm.convState.turnIndex

\* The three checks at the head of the timer callback, on the values the
\* callback holds (sessionEnded, convState) and the live ref.
TimerCallbackPasses(tm) ==
  /\ ~tm.sessionEnded
  /\ canGenerateAgentResponse(tm.convState)
  /\ scheduledTurnRef = tm.convState.turnIndex

\* The same checks on the state as it is when the timer fires.
LiveChecksPass ==
  /\ ~sessionEnded
  /\ canGenerateAgentResponse(convState)
  /\ scheduledTurnRef = convState.turnIndex

\* addAgentMessage(agent, content): setMessages(prev => [...prev, newMessage])
addAgentMessage(msgs, agentId, content) ==
  Append(msgs, AgentMessage(agentId, content))

\* The greeting effect's setTimeout(..., 2000) callback fires.  The callback
\* holds the useGeminiInterviewer of the render that ran the effect.
GreetingTimerFire ==
  /\ page \in PracticePages
  /\ greetingTimers # <<>>
  /\ LET g == Head(greetingTimers) IN
       /\ greetingTimers' = Tail(greetingTimers)
       /\ IF page = "practice" /\ scenarioId = "presentation"
            THEN \* setMessages([userMessage])
                 /\ messages' = <<UserMessage("Welcome everyone!")>>
                 /\ UNCHANGED <<convState, requests>>
          ELSE IF page = "practiceAI" /\ g.useGeminiInterviewer /\ Len(agents) > 0
            THEN \* initGreeting(): the fetch is sent
                 /\ requests' = Append(requests, [kind |-> "greeting", hist |-> <<>>])
                 /\ UNCHANGED <<messages, convState>>
          ELSE IF Len(agents) > 0
            THEN /\ messages' = addAgentMessage(messages, agents[1], <<"Hello! Welcome to the session.">>)
                 /\ convState' = advanceAfterAgentResponse(convState, agents[1])
                 /\ UNCHANGED requests
          ELSE UNCHANGED <<messages, convState, requests>>
  /\ lastEvent' = Event("greetingTimer")
  /\ UNCHANGED <<page, analysis, voiceRandom, ttsEnabled, qaTimers,
                 currentFlowSection, qaStartTime, recognitionState,
                 interimTranscript, fullTranscript, practiceSessions,
                 effectiveDuration, timeElapsed, speechError,
                 speechRecognitionSupported, sinceTranscript, scenarioId,
                 agents, sessionEnded, isActive, useGeminiInterviewer,
                 geminiConversationHistory, isGeminiProcessing,
                 currentAgentIndex, scheduledTurnRef, agentResponseTimers,
                 hardcodedTimers, sessionActive, conversationHistory,
                 isProcessing, recognitionRef, inputs, toggles>>

\* Mutant: the user's message is counted as a completed turn.
SendNextState_CountsUserTurn(prev) ==
  [updateStateOnUserMessage(prev) EXCEPT !.turnIndex = @ + 1]

\* const next = updateStateOnUserMessage(prev)
SendNextState(prev) == updateStateOnUserMessage(prev)

\* handleSendMessage, invoked from the text box of the session view.
handleSendMessage ==
  /\ page \in PracticePages
  /\ ~sessionEnded
  /\ inputs < MaxInputs
  /\ Events < MaxEvents
  /\ inputs' = inputs + 1
  /\ messages' = Append(messages, UserMessage("utterance"))
  /\ IF page = "practice" /\ scenarioId = "presentation"
       THEN \* generateHardcodedResponse()
            /\ hardcodedTimers' =
                 IF Len(agents) = 0 \/ sessionEnded THEN hardcodedTimers
                 ELSE hardcodedTimers + 1
            /\ UNCHANGED <<convState, scheduledTurnRef, agentResponseTimers>>
       ELSE LET next == SendNextState(convState)
                r == IF Len(agents) > 0 /\ ~sessionEnded
                       THEN scheduleAgentResponse(Render, next, scheduledTurnRef,
                                                  agentResponseTimers)
                       ELSE [ref |-> scheduledTurnRef, timers |-> agentResponseTimers]
            IN /\ convState' = next
               /\ scheduledTurnRef' = r.ref
               /\ agentResponseTimers' = r.timers
               /\ UNCHANGED hardcodedTimers
  /\ lastEvent' = Event("sendMessage")
  /\ UNCHANGED <<page, analysis, voiceRandom, ttsEnabled, qaTimers,
                 currentFlowSection, qaStartTime, recognitionState,
                 interimTranscript, fullTranscript, practiceSessions,
                 effectiveDuration, timeElapsed, speechError,
                 speechRecognitionSupported, sinceTranscript, scenarioId,
                 agents, sessionEnded, isActive, useGeminiInterviewer,
                 geminiConversationHistory, isGeminiProcessing,
                 currentAgentIndex, greetingTimers, requests, sessionActive,
                 conversationHistory, isProcessing, recognitionRef, toggles>>

\* A timer created by scheduleAgentResponse fires (delays are random, so any
\* pending timer may be the next).
AgentTimerFire ==
  /\ page \in PracticePages
  /\ \E i \in 1..Len(agentResponseTimers) :
       LET tm == agentResponseTimers[i]
           passes == TimerCallbackPasses(tm)
       IN /\ agentResponseTimers' = RemoveAt(agentResponseTimers, i)
          /\ IF passes
               THEN /\ messages' = addAgentMessage(messages, tm.selected, <<"reply">>)
                    /\ convState' = advanceAfterAgentResponse(convState, tm.selected)
                    /\ scheduledTurnRef' = NoTurn
               ELSE UNCHANGED <<messages, convState, scheduledTurnRef>>
          /\ lastEvent' = [Event("agentTimer") EXCEPT
                             !.turn = tm.turn, !.calls = tm.calls,
                             !.passed = passes, !.live = LiveChecksPass,
                             !.stale = (convState.turnIndex # tm.turn),
                             !.n = Len(messages') - Len(messages),
                             !.advanced = (convState' # convState)]
  /\ UNCHANGED <<page, analysis, voiceRandom, ttsEnabled, qaTimers,
                 currentFlowSection, qaStartTime, recognitionState,
                 interimTranscript, fullTranscript, practiceSessions,
                 effectiveDuration, timeElapsed, speechError,
                 speechRecognitionSupported, sinceTranscript, scenarioId,
                 agents, sessionEnded, isActive, useGeminiInterviewer,
                 geminiConversationHistory, isGeminiProcessing,
                 currentAgentIndex, greetingTimers, hardcodedTimers, requests,
                 sessionActive, conversationHistory, isProcessing,
                 recognitionRef, inputs, toggles>>

\* The timer of generateHardcodedResponse fires (presentation scenario); the
\* agent was drawn with Math.random() when the timer was created.
HardcodedTimerFire ==
  /\ page = "practice"
  /\ hardcodedTimers > 0
  /\ hardcodedTimers' = hardcodedTimers - 1
  /\ \E k \in 1..Len(agents) :
       messages' = Append(messages, AgentMessage(agents[k], <<"hardcoded">>))
  /\ lastEvent' = Event("hardcodedTimer")
  /\ UNCHANGED <<page, analysis, voiceRandom, ttsEnabled, qaTimers,
                 currentFlowSection, qaStartTime, recognitionState,
                 interimTranscript, fullTranscript, practiceSessions,
                 effectiveDuration, timeElapsed, speechError,
                 speechRecognitionSupported, sinceTranscript, scenarioId,
                 agents, convState, sessionEnded, isActive,
                 useGeminiInterviewer, geminiConversationHistory,
                 isGeminiProcessing, currentAgentIndex, scheduledTurnRef,
                 agentResponseTimers, greetingTimers, requests, sessionActive,
                 conversationHistory, isProcessing, recognitionRef, inputs,
                 toggles>>

\* Mutant: handleEndSession forgets the pending timers.
ClearAgentTimers_Keep(timers) == timers

\* agentResponseTimers.current.forEach(clearTimeout); agentResponseTimers.current = []
ClearAgentTimers(timers) == <<>>

\* calculateScore(userMessages, timeElapsed, difficulty) of
\* @/lib/agent-responses, kept as the values it is applied to.
calculateScore(userMessages, time, difficulty) ==
  <<"score", userMessages, time, difficulty>>

\* JSON.stringify / JSON.parse of the stored list.
JSONstringify(list) == [json |-> list]
JSONparse(text) == text.json

\* JSON.parse(localStorage.getItem("practice-sessions") || "[]")
StoredSessions(item) ==
  JSONparse(IF item = <<>> THEN JSONstringify(<<>>) ELSE item[1])

\* The summary handleEndSession pushes, from the values c the running
\* handleEndSession holds (messages, timeElapsed, fullTranscript).
SessionSummary(c) ==
  [scenarioId |-> scenarioId,
   date |-> "toISOString",
   score |-> calculateScore(
               Cardinality({i \in 1..Len(c.messages) : c.messages[i].isUser}),
               c.timeElapsed, "medium"),
   duration |-> c.timeElapsed,
   difficulty |-> "medium",
   \* fullTranscript.trim() || null, with null kept as <<>>
   transcript |-> c.fullTranscript]

\* Mutant: the stored list is started afresh at every save.
SaveSession_Overwrites(item, summary) == <<JSONstringify(<<summary>>)>>

\* sessions.push({...}); localStorage.setItem("practice-sessions", JSON.stringify(sessions))
SaveSession(item, summary) ==
  <<JSONstringify(Append(StoredSessions(item), summary))>>

\* QA_QUESTIONS, by the agentIndex of each entry.
QA_QUESTIONS == <<0, 1, 2, 3, 0, 1, 2, 3, 0, 1, 2, 3>>

\* Mutant: the Q&A effect does not look at qaStartTime.
QaStarts_IgnoresStarted(t, ended) ==
  /\ page = "practice"
  /\ scenarioId = "presentation"
  /\ t = QaStartSec
  /\ Len(agents) > 0
  /\ ~ended

\* The condition of the Q&A effect, in a render with timeElapsed = t and
\* sessionEnded = ended.
QaStarts(t, ended) ==
  /\ page = "practice"
  /\ scenarioId = "presentation"
  /\ t = QaStartSec
  /\ qaStartTime = 0
  /\ Len(agents) > 0
  /\ ~ended

\* The Q&A effect, run after a render in which one of its dependencies
\* changed.  askQuestion keeps the sessionEnded of that render; the timer
\* of the first question is not stored in qaTimerRef.
QaEffect(t, ended) ==
  IF QaStarts(t, ended)
    THEN /\ qaStartTime' = t
         /\ currentFlowSection' = "qa"
         /\ qaTimers' = Append(qaTimers,
              [index |-> 0, stored |-> FALSE, sessionEnded |-> ended])
    ELSE UNCHANGED <<qaStartTime, currentFlowSection, qaTimers>>

\* clearTimeout(qaTimerRef.current): the timer of the next question, the only
\* one stored, is cancelled if it is pending.
ClearQaTimer(timers) ==
  IF page = "practice" THEN SelectSeq(timers, LAMBDA tm : ~tm.stored)
  ELSE timers

\* Mutant: every question is put by the first agent.
QaAgentOf_First(ags, index) == ags[1]

\* agents[qa.agentIndex % agents.length] for QA_QUESTIONS[index]
QaAgentOf(ags, index) == ags[(QA_QUESTIONS[index + 1] % Len(ags)) + 1]

\* A timer of the Q&A fires: askQuestion(index).
AskQuestionFire ==
  /\ page = "practice"
  /\ \E i \in 1..Len(qaTimers) :
       LET tm == qaTimers[i]
           rest == RemoveAt(qaTimers, i)
       IN IF tm.index >= Len(QA_QUESTIONS) \/ tm.sessionEnded
            THEN /\ qaTimers' = rest
                 /\ UNCHANGED messages
                 /\ lastEvent' = [Event("askQuestion") EXCEPT !.n = tm.index]
            ELSE /\ messages' = Append(messages,
                      AgentMessage(QaAgentOf(agents, tm.index),
                                   <<"question", ToString(tm.index)>>))
                 /\ qaTimers' =
                      (IF tm.index + 1 < Len(QA_QUESTIONS)
                         THEN Append(rest, [index |-> tm.index + 1,
                                            stored |-> TRUE,
                                            sessionEnded |-> tm.sessionEnded])
                         ELSE rest)
                 /\ lastEvent' = [Event("askQuestion") EXCEPT
                                    !.n = tm.index, !.passed = TRUE]
  /\ UNCHANGED <<page, analysis, voiceRandom, ttsEnabled, currentFlowSection,
                 qaStartTime, recognitionState, interimTranscript,
                 fullTranscript, practiceSessions, effectiveDuration,
                 timeElapsed, speechError, speechRecognitionSupported,
                 sinceTranscript, scenarioId, agents, convState, sessionEnded,
                 isActive, useGeminiInterviewer, geminiConversationHistory,
                 isGeminiProcessing, currentAgentIndex, scheduledTurnRef,
                 agentResponseTimers, greetingTimers, hardcodedTimers,
                 requests, sessionActive, conversationHistory, isProcessing,
                 recognitionRef, inputs, toggles>>

\* The TTS switch of the practice page; ttsEnabled is a dependency of the
\* Q&A effect, which runs again.
ToggleTts ==
  /\ page = "practice"
  /\ scenarioId = "presentation"
  /\ toggles < MaxToggles
  /\ Events < MaxEvents
  /\ toggles' = toggles + 1
  /\ ttsEnabled' = ~ttsEnabled
  /\ QaEffect(timeElapsed, sessionEnded)
  /\ lastEvent' = Event("toggleTts")
  /\ UNCHANGED <<page, analysis, voiceRandom, recognitionState,
                 interimTranscript, fullTranscript, practiceSessions,
                 effectiveDuration, timeElapsed, speechError,
                 speechRecognitionSupported, sinceTranscript, scenarioId,
                 agents, messages, convState, sessionEnded, isActive,
                 useGeminiInterviewer, geminiConversationHistory,
                 isGeminiProcessing, currentAgentIndex, scheduledTurnRef,
                 agentResponseTimers, greetingTimers, hardcodedTimers,
                 requests, sessionActive, conversationHistory, isProcessing,
                 recognitionRef, inputs>>

\* The body of handleEndSession, run with the values c of the render it
\* belongs to.
EndSession(c) ==
  /\ isActive' = FALSE
  /\ sessionEnded' = TRUE
  /\ agentResponseTimers' = ClearAgentTimers(agentResponseTimers)
  /\ practiceSessions' = SaveSession(practiceSessions, SessionSummary(c))
  \* page.tsx: if (qaTimerRef.current) clearTimeout(qaTimerRef.current)
  /\ qaTimers' = ClearQaTimer(qaTimers)
  \* part_001: stopListening(), which stops the recogniser if this
  \* handleEndSession holds isListening = true
  /\ recognitionState' =
       (IF page = "practiceAI" /\ c.isListening /\ recognitionState = "on"
          THEN "ending" ELSE recognitionState)

\* handleEndSession, from the End Session button of the session view.
handleEndSession ==
  /\ page \in PracticePages
  /\ ~sessionEnded
  /\ EndSession(Render)
  /\ lastEvent' = [Event("endSession") EXCEPT
                     !.cleared = Len(agentResponseTimers)]
  /\ UNCHANGED <<page, analysis, voiceRandom, ttsEnabled, currentFlowSection,
                 qaStartTime, interimTranscript, fullTranscript,
                 effectiveDuration, timeElapsed, speechError,
                 speechRecognitionSupported, sinceTranscript, scenarioId,
                 agents, messages, convState, useGeminiInterviewer,
                 geminiConversationHistory, isGeminiProcessing,
                 currentAgentIndex, scheduledTurnRef, greetingTimers,
                 hardcodedTimers, requests, sessionActive,
                 conversationHistory, isProcessing, recognitionRef, inputs,
                 toggles>>

\* The values held by the handleEndSession that the session timer calls: the
\* interval is created by an effect that runs at mount (and again only when
\* isActive, sessionEnded or effectiveDuration change), so it keeps the
\* render of the mount.
IntervalClosure ==
  [messages |-> <<>>, timeElapsed |-> 0, fullTranscript |-> <<>>,
   isListening |-> FALSE]

\* The limit test of the interval written with > instead of >=: the tick
\* that reaches the limit does not end the session.
LimitReached_Late(d, newTime) == d > 0 /\ newTime > d

\* if (effectiveDuration > 0 && newTime >= effectiveDuration)
LimitReached(d, newTime) == d > 0 /\ newTime >= d

\* A tick of the session timer (setInterval, 1000 ms; it exists while
\* isActive and not sessionEnded).
SessionTimerTick ==
  /\ page \in PracticePages
  /\ isActive
  /\ ~sessionEnded
  /\ Events < MaxEvents
  /\ timeElapsed' = timeElapsed + 1
  /\ IF LimitReached(effectiveDuration, timeElapsed + 1)
       THEN /\ EndSession(IntervalClosure)
            /\ UNCHANGED <<qaStartTime, currentFlowSection>>
            /\ lastEvent' = [Event("tick") EXCEPT
                               !.cleared = Len(agentResponseTimers)]
       ELSE /\ UNCHANGED <<isActive, sessionEnded, agentResponseTimers,
                           practiceSessions, recognitionState>>
            \* the render with the new timeElapsed runs the Q&A effect
            /\ QaEffect(timeElapsed + 1, sessionEnded)
            /\ lastEvent' = Event("tick")
  /\ UNCHANGED <<page, analysis, voiceRandom, ttsEnabled, interimTranscript,
                 fullTranscript, effectiveDuration, speechError,
                 speechRecognitionSupported, sinceTranscript, scenarioId,
                 agents, messages, convState, useGeminiInterviewer,
                 geminiConversationHistory, isGeminiProcessing,
                 currentAgentIndex, scheduledTurnRef, greetingTimers,
                 hardcodedTimers, requests, sessionActive,
                 conversationHistory, isProcessing, recognitionRef, inputs,
                 toggles>>

\* ------------------ practice page with the AI interviewer --------------
\* The conversational-AI endpoint, on success: the history it was sent, with
\* the user input and its reply added.
Endpoint(hist) == hist \o <<"user", "model">>

\* How an awaited fetch ends: response.ok, a non-success response, or a throw.
Outcomes == {"ok", "nonok", "throw"}

\* error.message in the catch block of the two request handlers
ErrorMessageOf(outcome) ==
  IF outcome = "nonok" THEN "Failed to get response from interviewer"
  ELSE "Failed to fetch"

\* The debounce windows of recognition.onresult, in ms.
PracticeDebounceMs == 2000
InterviewDebounceMs == 1500
DebounceMs == IF page = "interview" THEN InterviewDebounceMs ELSE PracticeDebounceMs

\* Time between two final speech results (or between the mount, where
\* lastTranscriptTimeRef starts at Date.now(), and the first): exactly the
\* window, or one ms more.
Delays == {DebounceMs, DebounceMs + 1}

\* now - lastTranscriptTimeRef.current for a result that arrives dt ms after
\* the previous one; every value beyond the window is kept as window + 1.
Elapsed(dt) ==
  IF sinceTranscript + dt > DebounceMs THEN DebounceMs + 1
  ELSE sinceTranscript + dt

\* Mutant: a result exactly at the end of the window is accepted.
DebouncePasses_AtWindow(elapsed) == elapsed >= DebounceMs

\* if (now - lastTranscriptTimeRef.current > 2000)   (1500 on the interview page)
DebouncePasses(elapsed) == elapsed > DebounceMs

\* recognition.onresult and the handlers it calls keep the values of the
\* render in which startListening() first created the recognition object:
\* the render that follows the mount effects (agents just set, everything
\* else at its initial value).
RecognitionClosure(ags) ==
  [useGeminiInterviewer |-> TRUE, isGeminiProcessing |-> FALSE,
   geminiConversationHistory |-> <<>>, currentAgentIndex |-> 0,
   agents |-> ags, sessionEnded |-> FALSE,
   convState |-> initConversationState, messages |-> <<>>,
   isActive |-> TRUE, isMuted |-> FALSE, isListening |-> FALSE,
   speechRecognitionSupported |-> TRUE]

\* The AI Interviewer switch (disabled while isGeminiProcessing); the greeting
\* effect depends on useGeminiInterviewer and runs again.
ToggleGeminiInterviewer ==
  /\ page = "practiceAI"
  /\ ~sessionEnded
  /\ ~isGeminiProcessing
  /\ toggles < MaxToggles
  /\ Events < MaxEvents
  /\ toggles' = toggles + 1
  /\ useGeminiInterviewer' = ~useGeminiInterviewer
  /\ greetingTimers' =
       Append(greetingTimers, [useGeminiInterviewer |-> ~useGeminiInterviewer])
  /\ lastEvent' = Event("toggle")
  /\ UNCHANGED <<page, analysis, voiceRandom, ttsEnabled, qaTimers,
                 currentFlowSection, qaStartTime, recognitionState,
                 interimTranscript, fullTranscript, practiceSessions,
                 effectiveDuration, timeElapsed, speechError,
                 speechRecognitionSupported, sinceTranscript, scenarioId,
                 agents, messages, convState, sessionEnded, isActive,
                 geminiConversationHistory, isGeminiProcessing,
                 currentAgentIndex, scheduledTurnRef, agentResponseTimers,
                 hardcodedTimers, requests, sessionActive,
                 conversationHistory, isProcessing, recognitionRef, inputs>>

\* The continuation of initGreeting's fetch.
GreetingResponse ==
  /\ page = "practiceAI"
  /\ \E i \in 1..Len(requests), outcome \in Outcomes :
       /\ requests[i].kind = "greeting"
       /\ requests' = RemoveAt(requests, i)
       /\ IF outcome = "ok"
            THEN /\ geminiConversationHistory' = Endpoint(requests[i].hist)
                 /\ messages' = <<AgentMessage(agents[1], <<"greeting">>)>>
                 /\ currentAgentIndex' = 1
          ELSE IF outcome = "throw"
            THEN /\ messages' = addAgentMessage(messages, agents[1],
                                   <<"Hello! Welcome to the session.">>)
                 /\ UNCHANGED <<geminiConversationHistory, currentAgentIndex>>
          ELSE UNCHANGED <<messages, geminiConversationHistory, currentAgentIndex>>
       /\ lastEvent' = [Event("greetingResponse") EXCEPT
                          !.outcome = outcome,
                          !.n = Len(messages') - Len(messages)]
  /\ UNCHANGED <<page, analysis, voiceRandom, ttsEnabled, qaTimers,
                 currentFlowSection, qaStartTime, recognitionState,
                 interimTranscript, fullTranscript, practiceSessions,
                 effectiveDuration, timeElapsed, speechError,
                 speechRecognitionSupported, sinceTranscript, scenarioId,
                 agents, convState, sessionEnded, isActive,
                 useGeminiInterviewer, isGeminiProcessing, scheduledTurnRef,
                 agentResponseTimers, greetingTimers, hardcodedTimers,
                 sessionActive, conversationHistory, isProcessing,
                 recognitionRef, inputs, toggles>>

\* recognition.onresult with no final text (either page): the words heard so
\* far are shown, nothing else is touched.
SpeechInterim ==
  /\ recognitionRef # <<>>
  /\ recognitionState = "on"
  /\ interimTranscript' = "interim"
  /\ lastEvent' = Event("speechInterim")
  /\ UNCHANGED <<page, analysis, voiceRandom, ttsEnabled, qaTimers,
                 currentFlowSection, qaStartTime, recognitionState,
                 fullTranscript, practiceSessions, effectiveDuration,
                 timeElapsed, speechError, speechRecognitionSupported,
                 sinceTranscript, scenarioId, agents, messages, convState,
                 sessionEnded, isActive, useGeminiInterviewer,
                 geminiConversationHistory, isGeminiProcessing,
                 currentAgentIndex, scheduledTurnRef, agentResponseTimers,
                 greetingTimers, hardcodedTimers, requests, sessionActive,
                 conversationHistory, isProcessing, recognitionRef, inputs,
                 toggles>>

\* recognition.onresult with a final text, dt ms after the previous one.
SpeechFinal ==
  /\ page = "practiceAI"
  /\ recognitionRef # <<>>
  /\ recognitionState = "on"
  /\ inputs < MaxInputs
  /\ Events < MaxEvents
  /\ inputs' = inputs + 1
  \* setInterimTranscript(interimText): the result is final, no interim text
  /\ interimTranscript' = ""
  /\ \E dt \in Delays :
       LET c == recognitionRef[1]
           elapsed == Elapsed(dt)
       IN IF ~DebouncePasses(elapsed)
            THEN /\ sinceTranscript' = elapsed
                 /\ lastEvent' = [Event("speechDropped") EXCEPT !.elapsed = elapsed]
                 /\ UNCHANGED <<messages, fullTranscript, isGeminiProcessing,
                                requests, convState, scheduledTurnRef,
                                agentResponseTimers>>
            ELSE /\ messages' = Append(messages, UserMessage("utterance"))
                 \* setFullTranscript((prev) => prev + " " + finalText)
                 /\ fullTranscript' = Append(fullTranscript, "utterance")
                 /\ IF c.useGeminiInterviewer
                      THEN \* handleGeminiInterviewerResponse(finalText.trim())
                           /\ IF c.isGeminiProcessing
                                THEN UNCHANGED <<isGeminiProcessing, requests>>
                                ELSE /\ isGeminiProcessing' = TRUE
                                     /\ requests' = Append(requests,
                                          [kind |-> "reply",
                                           hist |-> c.geminiConversationHistory,
                                           agentIndex |-> c.currentAgentIndex])
                           /\ UNCHANGED <<convState, scheduledTurnRef,
                                          agentResponseTimers>>
                      ELSE LET next == SendNextState(convState)
                               r == IF Len(c.agents) > 0 /\ ~c.sessionEnded
                                      THEN scheduleAgentResponse(c, next,
                                             scheduledTurnRef, agentResponseTimers)
                                      ELSE [ref |-> scheduledTurnRef,
                                            timers |-> agentResponseTimers]
                           IN /\ convState' = next
                              /\ scheduledTurnRef' = r.ref
                              /\ agentResponseTimers' = r.timers
                              /\ UNCHANGED <<isGeminiProcessing, requests>>
                 \* lastTranscriptTimeRef.current = now
                 /\ sinceTranscript' = 0
                 /\ lastEvent' = [Event("speechFinal") EXCEPT !.elapsed = elapsed]
  /\ UNCHANGED <<page, analysis, voiceRandom, ttsEnabled, qaTimers,
                 currentFlowSection, qaStartTime, recognitionState,
                 practiceSessions, effectiveDuration, timeElapsed,
                 speechError, speechRecognitionSupported, scenarioId, agents,
                 sessionEnded, isActive, useGeminiInterviewer,
                 geminiConversationHistory, currentAgentIndex, greetingTimers,
                 hardcodedTimers, sessionActive, conversationHistory,
                 isProcessing, recognitionRef, toggles>>

\* Mutant: the stored history is overwritten before the response is checked,
\* so a failed request wipes it.
GeminiSettle_WipesHistory(req, outcome) ==
  IF outcome = "ok"
    THEN [messages |->
            Append(messages,
              AgentMessage(
                IF Len(agents) > 0
                  THEN agents[(req.agentIndex % Len(agents)) + 1] ELSE "ai",
                <<"reply">>)),
          history |-> Endpoint(req.hist),
          agentIndex |-> currentAgentIndex + 1]
    ELSE [messages |->
            Append(messages,
              AgentMessage("system", ErrorContent(ErrorMessageOf(outcome)))),
          history |-> <<>>,
          agentIndex |-> currentAgentIndex]

\* What the continuation of handleGeminiInterviewerResponse's fetch does to
\* the message list and the stored history, by outcome.
GeminiSettle(req, outcome) ==
  IF outcome = "ok"
    THEN [messages |->
            Append(messages,
              AgentMessage(
                IF Len(agents) > 0
                  THEN agents[(req.agentIndex % Len(agents)) + 1] ELSE "ai",
                <<"reply">>)),
          history |-> Endpoint(req.hist),
          agentIndex |-> currentAgentIndex + 1]
    ELSE [messages |->
            Append(messages,
              AgentMessage("system", ErrorContent(ErrorMessageOf(outcome)))),
          history |-> geminiConversationHistory,
          agentIndex |-> currentAgentIndex]

GeminiResponse ==
  /\ page = "practiceAI"
  /\ \E i \in 1..Len(requests), outcome \in Outcomes :
       /\ requests[i].kind = "reply"
       /\ requests' = RemoveAt(requests, i)
       /\ LET r == GeminiSettle(requests[i], outcome) IN
            /\ messages' = r.messages
            /\ geminiConversationHistory' = r.history
            /\ currentAgentIndex' = r.agentIndex
       /\ isGeminiProcessing' = FALSE
       /\ lastEvent' = [Event("reply") EXCEPT !.outcome = outcome]
  /\ UNCHANGED <<page, analysis, voiceRandom, ttsEnabled, qaTimers,
                 currentFlowSection, qaStartTime, recognitionState,
                 interimTranscript, fullTranscript, practiceSessions,
                 effectiveDuration, timeElapsed, speechError,
                 speechRecognitionSupported, sinceTranscript, scenarioId,
                 agents, convState, sessionEnded, isActive,
                 useGeminiInterviewer, scheduledTurnRef, agentResponseTimers,
                 greetingTimers, hardcodedTimers, sessionActive,
                 conversationHistory, isProcessing, recognitionRef, inputs,
                 toggles>>

\* recognition.onend, after stop() or when the recogniser ends by itself.  The
\* handler holds the values of the render that created the recognition
\* object.  Interview page: restart if (sessionActive && recognitionRef.current).
\* Practice page: if (isActive && !sessionEnded && !isMuted) a 100 ms timer
\* calls startListening(), which starts the recogniser unless
\* !speechRecognitionSupported || isMuted || sessionEnded, or isListening;
\* that timer is taken together with onend, nothing it reads changes between.
RecognitionRestarts ==
  IF page = "interview"
    THEN recognitionRef # <<>> /\ recognitionRef[1].sessionActive
    ELSE /\ recognitionRef # <<>>
         /\ LET c == recognitionRef[1] IN
              /\ c.isActive /\ ~c.sessionEnded /\ ~c.isMuted
              /\ ~(~c.speechRecognitionSupported \/ c.isMuted \/ c.sessionEnded)
              /\ ~c.isListening

RecognitionEnd ==
  /\ page \in {"interview", "practiceAI"}
  /\ recognitionState \in {"on", "ending"}
  /\ recognitionState' = (IF RecognitionRestarts THEN "on" ELSE "off")
  \* a recogniser that ends by itself and is started again is where it was
  /\ recognitionState' # recognitionState
  \* setInterimTranscript("") on the interview page only
  /\ interimTranscript' = (IF page = "interview" THEN "" ELSE interimTranscript)
  /\ lastEvent' = Event("recognitionEnd")
  /\ UNCHANGED <<page, analysis, voiceRandom, ttsEnabled, qaTimers,
                 currentFlowSection, qaStartTime, fullTranscript,
                 practiceSessions, effectiveDuration, timeElapsed,
                 speechError, speechRecognitionSupported, sinceTranscript,
                 scenarioId, agents, messages, convState, sessionEnded,
                 isActive, useGeminiInterviewer, geminiConversationHistory,
                 isGeminiProcessing, currentAgentIndex, scheduledTurnRef,
                 agentResponseTimers, greetingTimers, hardcodedTimers,
                 requests, sessionActive, conversationHistory, isProcessing,
                 recognitionRef, inputs, toggles>>

\* ---------------------------- interview page ---------------------------
\* startSession (the button is shown while the session is not active).  The
\* recognition handlers created here keep this render's isProcessing and
\* conversationHistory.
startSession ==
  /\ page = "interview"
  /\ ~sessionActive
  /\ speechRecognitionSupported
  /\ toggles < MaxSessions
  /\ toggles' = toggles + 1
  /\ messages' = <<AgentMessage("assistant", <<"greeting">>)>>
  /\ conversationHistory' = <<"model">>
  /\ sessionActive' = TRUE
  /\ recognitionRef' = <<[isProcessing |-> isProcessing,
                          conversationHistory |-> conversationHistory,
                          sessionActive |-> sessionActive]>>
  \* recognition.start()
  /\ recognitionState' = "on"
  \* recognition.onstart: setSpeechError(null)
  /\ speechError' = NULL
  /\ lastEvent' = Event("startSession")
  /\ UNCHANGED <<page, analysis, voiceRandom, ttsEnabled, qaTimers,
                 currentFlowSection, qaStartTime, interimTranscript,
                 fullTranscript, practiceSessions, effectiveDuration,
                 timeElapsed, speechRecognitionSupported, sinceTranscript,
                 scenarioId, agents, convState, sessionEnded, isActive,
                 useGeminiInterviewer, geminiConversationHistory,
                 isGeminiProcessing, currentAgentIndex, scheduledTurnRef,
                 agentResponseTimers, greetingTimers, hardcodedTimers,
                 requests, isProcessing, inputs>>

\* recognition.onresult with a final text, dt ms after the previous one:
\* handleUserSpeech(finalText.trim()) if the debounce lets it through.
handleUserSpeech ==
  /\ page = "interview"
  /\ recognitionRef # <<>>
  /\ recognitionState = "on"
  /\ inputs < MaxInputs
  /\ inputs' = inputs + 1
  \* setInterimTranscript(interimText): the result is final, no interim text
  /\ interimTranscript' = ""
  /\ \E dt \in Delays :
       LET elapsed == Elapsed(dt) IN
         IF ~DebouncePasses(elapsed)
           THEN /\ sinceTranscript' = elapsed
                /\ lastEvent' = [Event("speechDropped") EXCEPT !.elapsed = elapsed]
                /\ UNCHANGED <<messages, isProcessing, requests>>
           ELSE /\ IF recognitionRef[1].isProcessing
                     THEN UNCHANGED <<messages, isProcessing, requests>>
                     ELSE /\ messages' = Append(messages, UserMessage("utterance"))
                          /\ isProcessing' = TRUE
                          /\ requests' = Append(requests,
                               [kind |-> "interview",
                                hist |-> recognitionRef[1].conversationHistory,
                                agentIndex |-> 0])
                \* lastTranscriptTimeRef.current = now
                /\ sinceTranscript' = 0
                /\ lastEvent' = [Event("userSpeech") EXCEPT !.elapsed = elapsed]
  /\ UNCHANGED <<page, analysis, voiceRandom, ttsEnabled, qaTimers,
                 currentFlowSection, qaStartTime, recognitionState,
                 fullTranscript, practiceSessions, effectiveDuration,
                 timeElapsed, speechError, speechRecognitionSupported,
                 scenarioId, agents, convState, sessionEnded, isActive,
                 useGeminiInterviewer, geminiConversationHistory,
                 isGeminiProcessing, currentAgentIndex, scheduledTurnRef,
                 agentResponseTimers, greetingTimers, hardcodedTimers,
                 sessionActive, conversationHistory, recognitionRef, toggles>>

\* Mutant: a failed request is dropped without an error message.
InterviewSettle_SilentFailure(req, outcome) ==
  IF outcome = "ok"
    THEN [messages |-> Append(messages, AgentMessage("assistant", <<"reply">>)),
          history |-> Endpoint(req.hist)]
    ELSE [messages |-> messages,
          history |-> conversationHistory]

\* What the continuation of handleUserSpeech's fetch does to the message list
\* and the stored history, by outcome.
InterviewSettle(req, outcome) ==
  IF outcome = "ok"
    THEN [messages |-> Append(messages, AgentMessage("assistant", <<"reply">>)),
          history |-> Endpoint(req.hist)]
    ELSE [messages |->
            Append(messages,
              AgentMessage("assistant", ErrorContent(ErrorMessageOf(outcome)))),
          history |-> conversationHistory]

InterviewResponse ==
  /\ page = "interview"
  /\ \E i \in 1..Len(requests), outcome \in Outcomes :
       /\ requests[i].kind = "interview"
       /\ requests' = RemoveAt(requests, i)
       /\ LET r == InterviewSettle(requests[i], outcome) IN
            /\ messages' = r.messages
            /\ conversationHistory' = r.history
       /\ isProcessing' = FALSE
       /\ lastEvent' = [Event("reply") EXCEPT !.outcome = outcome]
  /\ UNCHANGED <<page, analysis, voiceRandom, ttsEnabled, qaTimers,
                 currentFlowSection, qaStartTime, recognitionState,
                 interimTranscript, fullTranscript, practiceSessions,
                 effectiveDuration, timeElapsed, speechError,
                 speechRecognitionSupported, sinceTranscript, scenarioId,
                 agents, convState, sessionEnded, isActive,
                 useGeminiInterviewer, geminiConversationHistory,
                 isGeminiProcessing, currentAgentIndex, scheduledTurnRef,
                 agentResponseTimers, greetingTimers, hardcodedTimers,
                 sessionActive, recognitionRef, inputs, toggles>>

\* stopSession (shown while the session is active)
stopSession ==
  /\ page = "interview"
  /\ sessionActive
  /\ sessionActive' = FALSE
  /\ recognitionRef' = <<>>
  \* recognitionRef.current.stop()
  /\ recognitionState' =
       (IF recognitionState = "on" THEN "ending" ELSE recognitionState)
  /\ interimTranscript' = ""
  /\ lastEvent' = Event("stopSession")
  /\ UNCHANGED <<page, analysis, voiceRandom, ttsEnabled, qaTimers,
                 currentFlowSection, qaStartTime, fullTranscript,
                 practiceSessions, effectiveDuration, timeElapsed,
                 speechError, speechRecognitionSupported, sinceTranscript,
                 scenarioId, agents, messages, convState, sessionEnded,
                 isActive, useGeminiInterviewer, geminiConversationHistory,
                 isGeminiProcessing, currentAgentIndex, scheduledTurnRef,
                 agentResponseTimers, greetingTimers, hardcodedTimers,
                 requests, conversationHistory, isProcessing, inputs, toggles>>

\* resetSession (shown while the session is active): stopSession() and clear
resetSession ==
  /\ page = "interview"
  /\ sessionActive
  /\ sessionActive' = FALSE
  /\ recognitionRef' = <<>>
  \* recognitionRef.current.stop()
  /\ recognitionState' =
       (IF recognitionState = "on" THEN "ending" ELSE recognitionState)
  /\ interimTranscript' = ""
  /\ messages' = <<>>
  /\ conversationHistory' = <<>>
  /\ isProcessing' = FALSE
  /\ speechError' = NULL
  /\ lastEvent' = Event("resetSession")
  /\ UNCHANGED <<page, analysis, voiceRandom, ttsEnabled, qaTimers,
                 currentFlowSection, qaStartTime, fullTranscript,
                 practiceSessions, effectiveDuration, timeElapsed,
                 speechRecognitionSupported, sinceTranscript, scenarioId,
                 agents, convState, sessionEnded, isActive,
                 useGeminiInterviewer, geminiConversationHistory,
                 isGeminiProcessing, currentAgentIndex, scheduledTurnRef,
                 agentResponseTimers, greetingTimers, hardcodedTimers,
                 requests, inputs, toggles>>

\* ------------------------------ the system -----------------------------
\* effectiveDuration: no time limit (0) or a limit in seconds.
Durations == {0, 2}

\* A summary stored by an earlier session.
EarlierSummary ==
  [scenarioId |-> "party", date |-> "earlier",
   score |-> calculateScore(1, 1, "medium"), duration |-> 1,
   difficulty |-> "medium", transcript |-> <<>>]

\* setSpeechError(...) of the support check at mount
NotSupported ==
  "Speech recognition is not supported in your browser. Please use Chrome or Edge."

InitPractice ==
  /\ page \in PracticePages
  /\ scenarioId \in (IF page = "practice" THEN {"presentation", "party"} ELSE {"party"})
  \* a scenario with no agent, one agent, or several
  /\ \E n \in {0, 1, MaxAgents} : agents = generateAgents(n)
  /\ messages = <<>>
  /\ convState = initConversationState
  /\ sessionEnded = FALSE
  /\ isActive = TRUE
  /\ useGeminiInterviewer = (page = "practiceAI")
  /\ geminiConversationHistory = <<>>
  /\ isGeminiProcessing = FALSE
  /\ currentAgentIndex = 0
  /\ scheduledTurnRef = NoTurn
  /\ agentResponseTimers = <<>>
  /\ greetingTimers = <<[useGeminiInterviewer |-> (page = "practiceAI")]>>
  /\ hardcodedTimers = 0
  /\ requests = <<>>
  /\ sessionActive = FALSE
  /\ conversationHistory = <<>>
  /\ isProcessing = FALSE
  /\ speechRecognitionSupported \in
       (IF page = "practiceAI" THEN BOOLEAN ELSE {FALSE})
  /\ recognitionRef =
       (IF speechRecognitionSupported THEN <<RecognitionClosure(agents)>>
        ELSE <<>>)
  /\ inputs = 0
  /\ toggles = 0
  /\ sinceTranscript = 0
  /\ speechError = NULL
  /\ timeElapsed = 0
  /\ effectiveDuration \in Durations
  /\ practiceSessions \in {<<>>, <<JSONstringify(<<EarlierSummary>>)>>}
  /\ fullTranscript = <<>>
  /\ interimTranscript = ""
  /\ recognitionState = (IF speechRecognitionSupported THEN "on" ELSE "off")
  /\ qaStartTime = 0
  /\ currentFlowSection = "intro"
  /\ qaTimers = <<>>
  /\ ttsEnabled = TRUE
  /\ voiceRandom = <<>>
  /\ analysis = <<>>
  /\ lastEvent = Event("mount")

InitInterview ==
  /\ page = "interview"
  /\ scenarioId = "interview"
  /\ agents = <<>>
  /\ messages = <<>>
  /\ convState = initConversationState
  /\ sessionEnded = FALSE
  /\ isActive = TRUE
  /\ useGeminiInterviewer = FALSE
  /\ geminiConversationHistory = <<>>
  /\ isGeminiProcessing = FALSE
  /\ currentAgentIndex = 0
  /\ scheduledTurnRef = NoTurn
  /\ agentResponseTimers = <<>>
  /\ greetingTimers = <<>>
  /\ hardcodedTimers = 0
  /\ requests = <<>>
  /\ sessionActive = FALSE
  /\ conversationHistory = <<>>
  /\ isProcessing = FALSE
  /\ recognitionRef = <<>>
  /\ speechRecognitionSupported \in BOOLEAN
  /\ speechError = (IF speechRecognitionSupported THEN NULL ELSE NotSupported)
  /\ inputs = 0
  /\ toggles = 0
  /\ sinceTranscript = 0
  /\ timeElapsed = 0
  /\ effectiveDuration = 0
  /\ practiceSessions = <<>>
  /\ fullTranscript = <<>>
  /\ interimTranscript = ""
  /\ recognitionState = "off"
  /\ qaStartTime = 0
  /\ currentFlowSection = "intro"
  /\ qaTimers = <<>>
  /\ ttsEnabled = TRUE
  /\ voiceRandom = <<>>
  /\ analysis = <<>>
  /\ lastEvent = Event("mount")

Init == InitPractice \/ InitInterview

Next ==
  \/ GreetingTimerFire
  \/ handleSendMessage
  \/ AgentTimerFire
  \/ HardcodedTimerFire
  \/ handleEndSession
  \/ SessionTimerTick
  \/ ToggleGeminiInterviewer
  \/ GreetingResponse
  \/ SpeechInterim
  \/ SpeechFinal
  \/ RecognitionEnd
  \/ GeminiResponse
  \/ startSession
  \/ handleUserSpeech
  \/ InterviewResponse
  \/ stopSession
  \/ resetSession

Spec == Init /\ [][Next]_vars

\* --------------- calls of the scheduler and the state helpers ----------
\* A second specification applies scheduleAgentResponse and the
\* conversation-state helpers to every combination of the values they read:
\* agent list, message history, conversation state, session flag and
\* schedule marker.
HistoryMessages(ags) ==
  {UserMessage("utterance")}
    \cup {AgentMessage(ags[k], <<"reply">>) : k \in 1..Len(ags)}

Histories(ags) ==
  {<<>>} \cup {<<m>> : m \in HistoryMessages(ags)}
         \cup {<<m1, m2>> : m1 \in HistoryMessages(ags), m2 \in HistoryMessages(ags)}

InitCalls ==
  /\ page \in PracticePages
  /\ scenarioId = "party"
  /\ \E n \in 0..MaxAgents : agents = generateAgents(n)
  /\ messages \in Histories(agents)
  /\ convState \in [turnIndex : 0..MaxInputs, awaitingAgentTurn : BOOLEAN]
  /\ sessionEnded \in BOOLEAN
  /\ isActive = ~sessionEnded
  /\ useGeminiInterviewer = FALSE
  /\ geminiConversationHistory = <<>>
  /\ isGeminiProcessing = FALSE
  /\ currentAgentIndex = 0
  /\ scheduledTurnRef \in {NoTurn} \cup (0..MaxInputs)
  /\ agentResponseTimers = <<>>
  /\ greetingTimers = <<>>
  /\ hardcodedTimers = 0
  /\ requests = <<>>
  /\ sessionActive = FALSE
  /\ conversationHistory = <<>>
  /\ isProcessing = FALSE
  /\ recognitionRef = <<>>
  /\ inputs = 0
  /\ toggles = 0
  /\ sinceTranscript = 0
  /\ speechRecognitionSupported = FALSE
  /\ speechError = NULL
  /\ timeElapsed = 0
  /\ effectiveDuration = 0
  /\ practiceSessions = <<>>
  /\ fullTranscript = <<>>
  /\ interimTranscript = ""
  /\ recognitionState = "off"
  /\ qaStartTime = 0
  /\ currentFlowSection = "intro"
  /\ qaTimers = <<>>
  /\ ttsEnabled = TRUE
  /\ voiceRandom = <<>>
  /\ analysis = <<>>
  /\ lastEvent = Event("mount")

\* scheduleAgentResponse(stateSnapshot) called with the current render's
\* values, without an argument (snapshot = convState) or with the state that
\* follows a user message.
CallScheduleAgentResponse ==
  /\ \A i \in 1..Len(agentResponseTimers) :
        agentResponseTimers[i].calls < MaxInputs
  /\ \E snapshot \in {convState, updateStateOnUserMessage(convState)} :
       LET r == scheduleAgentResponse(Render, snapshot, scheduledTurnRef,
                                      agentResponseTimers)
       IN /\ scheduledTurnRef' = r.ref
          /\ agentResponseTimers' = r.timers
          /\ lastEvent' = [Event("schedule") EXCEPT
                             !.gate = canGenerateAgentResponse(snapshot),
                             !.turn = snapshot.turnIndex]
  /\ UNCHANGED <<page, analysis, voiceRandom, ttsEnabled, qaTimers,
                 currentFlowSection, qaStartTime, recognitionState,
                 interimTranscript, fullTranscript, practiceSessions,
                 effectiveDuration, timeElapsed, speechError,
                 speechRecognitionSupported, sinceTranscript, scenarioId,
                 agents, messages, convState, sessionEnded, isActive,
                 useGeminiInterviewer, geminiConversationHistory,
                 isGeminiProcessing, currentAgentIndex, greetingTimers,
                 hardcodedTimers, requests, sessionActive,
                 conversationHistory, isProcessing, recognitionRef, inputs,
                 toggles>>

\* A user message followed by an agent response, as the state helpers see
\* it: updateStateOnUserMessage, then advanceAfterAgentResponse.
CallUserThenAgentTurn ==
  /\ convState.turnIndex < MaxInputs
  /\ \E k \in 1..Len(agents) :
       convState' = advanceAfterAgentResponse(
                      updateStateOnUserMessage(convState), agents[k])
  /\ lastEvent' = [Event("turn") EXCEPT !.turn = convState.turnIndex]
  /\ UNCHANGED <<page, analysis, voiceRandom, ttsEnabled, qaTimers,
                 currentFlowSection, qaStartTime, recognitionState,
                 interimTranscript, fullTranscript, practiceSessions,
                 effectiveDuration, timeElapsed, speechError,
                 speechRecognitionSupported, sinceTranscript, scenarioId,
                 agents, messages, sessionEnded, isActive,
                 useGeminiInterviewer, geminiConversationHistory,
                 isGeminiProcessing, currentAgentIndex, scheduledTurnRef,
                 agentResponseTimers, greetingTimers, hardcodedTimers,
                 requests, sessionActive, conversationHistory, isProcessing,
                 recognitionRef, inputs, toggles>>

NextCalls ==
  \/ CallScheduleAgentResponse
  \/ CallUserThenAgentTurn

SpecCalls == InitCalls /\ [][NextCalls]_vars

\* ------------------------------- claims --------------------------------
\* The local turn scheduler runs on the practice pages outside the
\* presentation scenario.
LocalScheduler == page \in PracticePages /\ ~(page = "practice" /\ scenarioId = "presentation")

\* The presentation scenario from the second before its Q&A: 29 s after the
\* mount, the greeting shown, the user silent so far, the session limit off,
\* at the second the Q&A starts, or one second later.
QaDurations == {0, QaStartSec, QaStartSec + 1}

InitQA ==
  /\ page = "practice"
  /\ scenarioId = "presentation"
  /\ \E n \in {0, 1, MaxAgents} : agents = generateAgents(n)
  /\ messages = <<UserMessage("Welcome everyone!")>>
  /\ convState = initConversationState
  /\ sessionEnded = FALSE
  /\ isActive = TRUE
  /\ useGeminiInterviewer = FALSE
  /\ geminiConversationHistory = <<>>
  /\ isGeminiProcessing = FALSE
  /\ currentAgentIndex = 0
  /\ scheduledTurnRef = NoTurn
  /\ agentResponseTimers = <<>>
  /\ greetingTimers = <<>>
  /\ hardcodedTimers = 0
  /\ requests = <<>>
  /\ sessionActive = FALSE
  /\ conversationHistory = <<>>
  /\ isProcessing = FALSE
  /\ speechRecognitionSupported = FALSE
  /\ recognitionRef = <<>>
  /\ recognitionState = "off"
  /\ inputs = 0
  /\ toggles = 0
  /\ sinceTranscript = 0
  /\ speechError = NULL
  /\ timeElapsed = QaStartSec - 1
  /\ effectiveDuration \in QaDurations
  /\ practiceSessions = <<>>
  /\ fullTranscript = <<>>
  /\ interimTranscript = ""
  /\ qaStartTime = 0
  /\ currentFlowSection = "intro"
  /\ qaTimers = <<>>
  /\ ttsEnabled \in BOOLEAN
  /\ voiceRandom = <<>>
  /\ analysis = <<>>
  /\ lastEvent = Event("mount")

NextQA ==
  \/ SessionTimerTick
  \/ ToggleTts
  \/ AskQuestionFire
  \/ handleSendMessage
  \/ HardcodedTimerFire
  \/ handleEndSession

SpecQA == InitQA /\ [][NextQA]_vars

\* The interview page alone, with every request to the endpoint settling in
\* the end (it resolves or rejects).
NextInterview ==
  \/ startSession
  \/ SpeechInterim
  \/ handleUserSpeech
  \/ RecognitionEnd
  \/ InterviewResponse
  \/ stopSession
  \/ resetSession

SpecInterview ==
  InitInterview /\ [][NextInterview]_vars /\ WF_vars(InterviewResponse)

\* ---------------------------------------------------------------------
\* The VoiceAnalysis component of page.tsx and its generated report.

\* The values Math.floor(Math.random() * k) + b can take, for the draws that
\* decide the suggestions: all of them for stutters and fillerWords, and for
\* the others the ends of the range and the values on both sides of every
\* threshold the function tests.
StutterValues == 0..7
FillerWordValues == 0..2
WpmValues == {80, 99, 100, 119, 120, 129}
ClarityValues == {85, 89, 90, 99}
VolumeValues == {75, 84, 85, 94}
PitchValues == {75, 84, 85, 94}

\* getGrade(value, thresholds)
getGrade(value, thresholds) ==
  IF value <= thresholds[1] THEN "A"
  ELSE IF value <= thresholds[2] THEN "B"
  ELSE IF value <= thresholds[3] THEN "C"
  ELSE "D"

\* getPaceGrade(wpm)
getPaceGrade(wpm) ==
  IF wpm >= 120 /\ wpm <= 150 THEN "A"
  ELSE IF wpm >= 100 /\ wpm < 120 THEN "B"
  ELSE IF wpm >= 80 /\ wpm < 100 THEN "C"
  ELSE "D"

\* improvements.push(text) under a condition
PushIf(cond, improvements, text) ==
  IF cond THEN Append(improvements, text) ELSE improvements

\* improvements.slice(0, 2)
Slice2(improvements) ==
  SubSeq(improvements, 1, IF Len(improvements) < 2 THEN Len(improvements) ELSE 2)

\* generateVoiceAnalysis, as a function of the values it draws.  The draws
\* that only fill other fields of the report (overallScore, repetitions,
\* speakingTime, pauseTime) are left out; each suggestion is named by its
\* subject.
generateVoiceAnalysis(r) ==
  LET i1 == PushIf(r.stutters > 3, <<>>, "stuttering")
      i2 == PushIf(r.wpm < 100 \/ r.wpm > 150, i1, "pace")
      i3 == PushIf(r.fillerWords > 0, i2, "filler words")
      i4 == PushIf(r.clarity < 90, i3, "clarity")
      i5 == PushIf(r.volumeConsistency < 85, i4, "volume")
      i6 == PushIf(r.pitchConsistency < 85, i5, "pitch")
      improvements ==
        IF Len(i6) = 0 THEN <<"keep practicing", "larger audiences">> ELSE i6
  IN [stutters |-> [count |-> r.stutters,
                    grade |-> getGrade(r.stutters, <<2, 5, 8>>)],
      fillerWords |-> [count |-> r.fillerWords,
                       grade |-> getGrade(r.fillerWords, <<0, 2, 4>>)],
      wordsPerMinute |-> r.wpm,
      paceGrade |-> getPaceGrade(r.wpm),
      clarity |-> r.clarity,
      volumeConsistency |-> r.volumeConsistency,
      pitchConsistency |-> r.pitchConsistency,
      areasForImprovement |-> Slice2(improvements)]

\* The timer of the mount effect of VoiceAnalysis (2000 ms):
\* setAnalysis(generateVoiceAnalysis()).
GenerateAnalysis ==
  /\ page = "voiceAnalysis"
  /\ analysis = <<>>
  /\ analysis' = <<generateVoiceAnalysis(voiceRandom)>>
  /\ lastEvent' = Event("generateVoiceAnalysis")
  /\ UNCHANGED <<page, voiceRandom, scenarioId, agents, messages, convState,
                 sessionEnded, isActive, useGeminiInterviewer,
                 geminiConversationHistory, isGeminiProcessing,
                 currentAgentIndex, scheduledTurnRef, agentResponseTimers,
                 greetingTimers, hardcodedTimers, requests, sessionActive,
                 conversationHistory, isProcessing,
                 speechRecognitionSupported, recognitionRef,
                 recognitionState, inputs, toggles, sinceTranscript,
                 speechError, timeElapsed, effectiveDuration,
                 practiceSessions, fullTranscript, interimTranscript,
                 qaStartTime, currentFlowSection, qaTimers, ttsEnabled>>

\* VoiceAnalysis just mounted, with the values its report will draw.
InitVoice ==
  /\ page = "voiceAnalysis"
  /\ voiceRandom \in [stutters : StutterValues,
                      fillerWords : FillerWordValues,
                      wpm : WpmValues,
                      clarity : ClarityValues,
                      volumeConsistency : VolumeValues,
                      pitchConsistency : PitchValues]
  /\ analysis = <<>>
  /\ scenarioId = "presentation"
  /\ agents = <<>>
  /\ messages = <<>>
  /\ convState = initConversationState
  /\ sessionEnded = FALSE
  /\ isActive = FALSE
  /\ useGeminiInterviewer = FALSE
  /\ geminiConversationHistory = <<>>
  /\ isGeminiProcessing = FALSE
  /\ currentAgentIndex = 0
  /\ scheduledTurnRef = NoTurn
  /\ agentResponseTimers = <<>>
  /\ greetingTimers = <<>>
  /\ hardcodedTimers = 0
  /\ requests = <<>>
  /\ sessionActive = FALSE
  /\ conversationHistory = <<>>
  /\ isProcessing = FALSE
  /\ speechRecognitionSupported = FALSE
  /\ recognitionRef = <<>>
  /\ recognitionState = "off"
  /\ inputs = 0
  /\ toggles = 0
  /\ sinceTranscript = 0
  /\ speechError = NULL
  /\ timeElapsed = 0
  /\ effectiveDuration = 0
  /\ practiceSessions = <<>>
  /\ fullTranscript = <<>>
  /\ interimTranscript = ""
  /\ qaStartTime = 0
  /\ currentFlowSection = "intro"
  /\ qaTimers = <<>>
  /\ ttsEnabled = TRUE
  /\ lastEvent = Event("mount")

NextVoice == GenerateAnalysis

SpecVoice == InitVoice /\ [][NextVoice]_vars

\* C1: when scheduleAgentResponse was called two or more times for one
\* turnIndex before the timer fired, at most one timer is pending for that
\* turnIndex, and the timer, firing while that turn is still the pending one
\* and the session is running, appends exactly one agent Message.
C1_IdempotentSchedule ==
  /\ \A i, j \in 1..Len(agentResponseTimers) :
       agentResponseTimers[i].turn = agentResponseTimers[j].turn => i = j
  /\ (lastEvent.op = "agentTimer" /\ lastEvent.calls >= 2 /\ lastEvent.live)
       => (lastEvent.n = 1 /\ ~Last(messages).isUser)

\* C2: a timer that fires after turnIndex has moved on from the turnIndex it
\* was scheduled for appends no Message and leaves the conversation state as
\* it is.
C2_StaleTimerAppendsNothing ==
  (lastEvent.op = "agentTimer" /\ lastEvent.stale)
    => (lastEvent.n = 0 /\ ~lastEvent.advanced)

\* C2 witness: a timer has fired after turnIndex moved past its turn.
C2_Witness ==
  /\ lastEvent.op = "agentTimer"
  /\ lastEvent.stale
  /\ convState.turnIndex > lastEvent.turn

\* C3: with agents, outside the presentation scenario and before the session
\* ends, a sent message sets awaitingAgentTurn, and the timer it scheduled,
\* firing while that turn is still pending, appends exactly one non-user
\* Message, raises turnIndex by exactly 1 and resets awaitingAgentTurn.
C3_ReplyFollowsUserMessage ==
  /\ (LocalScheduler /\ lastEvent.op = "sendMessage")
       => convState.awaitingAgentTurn
  /\ (lastEvent.op = "agentTimer" /\ lastEvent.live)
       => /\ lastEvent.n = 1
          /\ ~Last(messages).isUser
          /\ convState = [turnIndex |-> lastEvent.turn + 1,
                          awaitingAgentTurn |-> FALSE]

\* C4: once handleEndSession has run, no timer created by
\* scheduleAgentResponse is pending, and none fires afterwards.
C4_EndSessionCancelsTimers ==
  /\ sessionEnded => agentResponseTimers = <<>>
  /\ lastEvent.op = "agentTimer" => ~sessionEnded

\* C4 witness: handleEndSession ran while agent timers were pending.
C4_Witness ==
  /\ sessionEnded
  /\ lastEvent.op = "endSession"
  /\ lastEvent.cleared >= 1

\* C5: the decision a firing timer takes is the one its checks give on the
\* conversation state at fire time.
C5_ChecksUseStateAtFireTime ==
  lastEvent.op = "agentTimer" => (lastEvent.passed <=> lastEvent.live)

\* C6: on the practice pages awaitingAgentTurn is true only while the last
\* Message of the transcript is a user message; checked after every step
\* that keeps the transcript it found.
C6_AwaitingOnlyAfterUserMessage ==
  [][(page \in PracticePages /\ IsPrefix(messages, messages')
        /\ convState'.awaitingAgentTurn)
       => (messages' # <<>> /\ Last(messages').isUser)]_vars

\* C7 (as stated): turnIndex equals the number of completed turns, user
\* messages plus agent messages.
C7_TurnIndexCountsAllTurns ==
  page \in PracticePages => convState.turnIndex = Len(messages)

\* C7 (amended): turnIndex moves only by +1 and only in a step that appends
\* exactly one agent Message; a user message, typed or spoken, leaves it
\* unchanged.
C7_TurnIndexMovesWithAgentTurn ==
  [][/\ convState'.turnIndex \in {convState.turnIndex, convState.turnIndex + 1}
     /\ convState'.turnIndex = convState.turnIndex + 1
          => /\ messages' # <<>>
             /\ messages' = Append(messages, Last(messages'))
             /\ ~Last(messages').isUser
     /\ lastEvent'.op \in {"sendMessage", "speechFinal"}
          => convState'.turnIndex = convState.turnIndex]_vars

\* C7 witness: turnIndex has advanced with an agent message while the
\* transcript also holds a user message that did not move it.
C7_Witness ==
  /\ convState.turnIndex = 1
  /\ \E i \in 1..Len(messages) : messages[i].isUser
  /\ \E i \in 1..Len(messages) : ~messages[i].isUser
  /\ lastEvent.op = "sendMessage"

\* C8: on the practice pages every step keeps the previous message list as a
\* prefix of the new one.
C8_MessagesAppendOnly ==
  [][(page \in PracticePages) => IsPrefix(messages, messages')]_vars

\* C9: when the request made for a user utterance ends with a non-success
\* response or a throw, exactly one message starting with
\* "Sorry, I encountered an error: " is appended, the stored conversation
\* history is unchanged, the processing flag is false and the session flags
\* are as they were.
C9_RequestFailureSurfaces ==
  [][(lastEvent'.op = "reply" /\ lastEvent'.outcome # "ok")
       => /\ messages' # <<>>
          /\ messages' = Append(messages, Last(messages'))
          /\ Head(Last(messages').content) = ErrorPrefix
          /\ ~Last(messages').isUser
          /\ geminiConversationHistory' = geminiConversationHistory
          /\ conversationHistory' = conversationHistory
          /\ ~isGeminiProcessing'
          /\ ~isProcessing'
          /\ sessionActive' = sessionActive
          /\ sessionEnded' = sessionEnded
          /\ isActive' = isActive]_vars

\* C9 witness: a request failed while a conversation history was stored.
C9_Witness ==
  /\ lastEvent.op = "reply"
  /\ lastEvent.outcome = "nonok"
  /\ Head(Last(messages).content) = ErrorPrefix
  /\ geminiConversationHistory \o conversationHistory # <<>>

\* C10: in AI-interviewer mode a non-success response to the greeting request
\* appends a chat message, so the transcript is not empty afterwards.
C10_GreetingFailureSurfaces ==
  (lastEvent.op = "greetingResponse" /\ lastEvent.outcome = "nonok")
    => (lastEvent.n = 1 /\ messages # <<>>)

\* C11: a scheduleAgentResponse call made with no agents, after the session
\* has ended, or with a snapshot the Turn Gate denies creates no timer and
\* leaves the schedule marker, the message list and the conversation state
\* as they were.
C11_ScheduleNoOp ==
  [][(lastEvent'.op = "schedule"
        /\ (Len(agents) = 0 \/ sessionEnded \/ ~lastEvent'.gate))
       => UNCHANGED <<agentResponseTimers, scheduledTurnRef, messages,
                      convState>>]_vars

\* C11 witness: scheduleAgentResponse was called after the session ended,
\* with agents and an awaiting snapshot for a turn that had no schedule.
C11_Witness ==
  /\ lastEvent.op = "schedule"
  /\ sessionEnded
  /\ Len(agents) > 0
  /\ lastEvent.gate
  /\ scheduledTurnRef # lastEvent.turn
  /\ agentResponseTimers = <<>>

\* C12: a user message followed by an agent response leaves a state the Turn
\* Gate denies, with turnIndex one above where it started.
C12_UserThenAgentTurn ==
  [][lastEvent'.op = "turn"
       => /\ ~canGenerateAgentResponse(convState')
          /\ convState'.turnIndex = convState.turnIndex + 1]_vars

\* C12 witness: the two helpers were applied to a state that was awaiting an
\* agent turn at turnIndex 1.
C12_Witness ==
  /\ lastEvent.op = "turn"
  /\ lastEvent.turn = 1
  /\ convState = [turnIndex |-> 2, awaitingAgentTurn |-> FALSE]

\* The agent of the most recent non-user message of history h.
MostRecentSpeaker(h) ==
  LET nonUser == {i \in 1..Len(h) : ~h[i].isUser}
  IN IF nonUser = {} THEN NULL
     ELSE h[CHOOSE i \in nonUser : \A j \in nonUser : j <= i].agentId

\* C13: with two or more agents and a history that holds a non-user message,
\* the agent selected for a newly scheduled reply is not the agent of the
\* most recent non-user message.
C13_NoAgentTwiceInARow ==
  [][(/\ Len(agentResponseTimers') > Len(agentResponseTimers)
      /\ Len(agents) >= 2
      /\ MostRecentSpeaker(messages) # NULL)
       => Last(agentResponseTimers').selected # MostRecentSpeaker(messages)]_vars

\* C13 witness: with two agents, a reply is scheduled after the first agent
\* has spoken.
C13_Witness ==
  /\ lastEvent.op = "sendMessage"
  /\ Len(agents) >= 2
  /\ agentResponseTimers # <<>>
  /\ MostRecentSpeaker(SubSeq(messages, 1, Len(messages) - 1)) = agents[1]
  /\ Last(agentResponseTimers).selected = agents[2]

\* C17: in the presentation scenario no agent Message (Q&A question or
\* hardcoded reply) is appended once handleEndSession has run.
C17_NoMessageAfterEnd ==
  [][(page = "practice" /\ scenarioId = "presentation" /\ sessionEnded)
       => ~(/\ Len(messages') > Len(messages)
            /\ ~Last(messages').isUser)]_vars

\* C18: while the session runs the schedule marker is set only if a timer
\* for that turnIndex is pending, and after a timer has fired the marker is
\* not the turnIndex that timer was scheduled for.
C18_MarkerOnlyWhilePending ==
  /\ (~sessionEnded /\ scheduledTurnRef # NoTurn)
       => \E i \in 1..Len(agentResponseTimers) :
            agentResponseTimers[i].turn = scheduledTurnRef
  /\ lastEvent.op = "agentTimer" => scheduledTurnRef # lastEvent.turn

\* The requests in flight that carry a user utterance.
UtteranceRequests ==
  {i \in 1..Len(requests) : requests[i].kind \in {"reply", "interview"}}

\* C19: at most one request for a user utterance is in flight.
C19_OneRequestInFlight == Cardinality(UtteranceRequests) <= 1

\* C20: a request sent for a user utterance carries the conversation history
\* stored at that moment (the one the last successful response returned, or
\* the greeting's).
C20_HistorySentIsLatest ==
  [][(/\ Len(requests') > Len(requests)
      /\ Last(requests').kind \in {"reply", "interview"})
       => Last(requests').hist =
            (IF page = "interview" THEN conversationHistory
             ELSE geminiConversationHistory)]_vars

SpeechNotice ==
  IF page = "interview" THEN speechError # NULL
  ELSE ~speechRecognitionSupported

\* C15: where speech recognition is unavailable the notice about it is
\* shown and a session that is not running can still be started.
C15_TextOnlyDegradation ==
  (page \in {"interview", "practiceAI"} /\ ~speechRecognitionSupported)
    => /\ SpeechNotice
       /\ (page = "interview" /\ ~sessionActive) => ENABLED startSession

\* C14: the list stored under "practice-sessions" is append-only.  A step
\* in which a practice session ends leaves the stored list as it was with
\* exactly one summary {scenarioId, date, score, duration, difficulty,
\* transcript} of this scenario added at its end; every other step leaves
\* the stored item alone.
C14_SessionsAppendOnly ==
  [][IF page \in PracticePages /\ ~sessionEnded /\ sessionEnded'
       THEN LET before == StoredSessions(practiceSessions)
                after == StoredSessions(practiceSessions')
            IN /\ Len(after) = Len(before) + 1
               /\ SubSeq(after, 1, Len(before)) = before
               /\ DOMAIN Last(after) =
                    {"scenarioId", "date", "score", "duration", "difficulty",
                     "transcript"}
               /\ Last(after).scenarioId = scenarioId
       ELSE practiceSessions' = practiceSessions]_vars

\* C14 witness: a session in which the user spoke has ended where an
\* earlier session had already been stored; the earlier summary is still
\* first and the new one, with its transcript, follows it.
C14_Witness ==
  /\ sessionEnded
  /\ lastEvent.op = "endSession"
  /\ practiceSessions # <<>>
  /\ Len(JSONparse(practiceSessions[1])) = 2
  /\ JSONparse(practiceSessions[1])[1] = EarlierSummary
  /\ JSONparse(practiceSessions[1])[2].transcript # <<>>

\* C21: the summary stored when a practice session ends records the seconds
\* elapsed at that moment as its duration and a score computed from the
\* number of user messages then in the transcript, whether the End Session
\* button or the duration timer ended the session.
C21_SummaryRecordsSessionAtEnd ==
  [][(page \in PracticePages /\ ~sessionEnded /\ sessionEnded')
       => LET saved == Last(StoredSessions(practiceSessions'))
              userMessages ==
                Cardinality({i \in 1..Len(messages') : messages'[i].isUser})
          IN /\ saved.duration = timeElapsed'
             /\ saved.score = calculateScore(userMessages, timeElapsed', "medium")
    ]_vars

\* The session is running as recognition.onend means it: sessionActive on
\* the interview page; active and not ended on the practice page (the
\* microphone is never muted here).
SessionRunning ==
  IF page = "interview" THEN sessionActive ELSE isActive /\ ~sessionEnded

\* C22: when recognition ends it is started again exactly if the session is
\* running at that moment, and a final speech result becomes a user message
\* only while the session is running.
C22_RestartOnlyWhileRunning ==
  [][/\ lastEvent'.op = "recognitionEnd"
          => (recognitionState' = "on" <=> SessionRunning)
     /\ (/\ lastEvent'.op \in {"speechFinal", "userSpeech"}
         /\ Len(messages') > Len(messages))
          => SessionRunning
    ]_vars

\* C23: in AI-interviewer mode the greeting comes from agents[0] and the
\* k-th reply after it from agents[k mod n] (k is currentAgentIndex, which
\* the greeting sets to 1 and every reply raises by one), so with two or
\* more agents a reply never comes from the agent that spoke last.
C23_RepliesRotateThroughAgents ==
  [][/\ (lastEvent'.op = "greetingResponse" /\ lastEvent'.outcome = "ok")
          => Last(messages').agentId = agents[1]
     /\ (lastEvent'.op = "reply" /\ lastEvent'.outcome = "ok"
         /\ page = "practiceAI" /\ Len(agents) > 0)
          => /\ Last(messages').agentId =
                  agents[(currentAgentIndex % Len(agents)) + 1]
             /\ (Len(agents) >= 2 /\ MostRecentSpeaker(messages) # NULL)
                  => Last(messages').agentId # MostRecentSpeaker(messages)
    ]_vars

\* C24: on the practice page with the AI-interviewer switch a new user
\* message, spoken or typed, goes to the Gemini interviewer and not to the
\* local turn scheduler while the switch is on, and to the local turn
\* scheduler and not to the Gemini interviewer while it is off.
C24_RoutedBySwitch ==
  [][(/\ page = "practiceAI"
      /\ Len(messages') = Len(messages) + 1
      /\ Last(messages').isUser)
       => IF useGeminiInterviewer
            THEN /\ UNCHANGED <<convState, scheduledTurnRef, agentResponseTimers>>
                 /\ ~isGeminiProcessing
                      => /\ Len(requests') = Len(requests) + 1
                         /\ Last(requests').kind = "reply"
            ELSE /\ requests' = requests
                 /\ convState' = updateStateOnUserMessage(convState)
    ]_vars

\* C25: on the interview page, while the session is stopped no message is
\* appended to the transcript, and a conversation history that is empty
\* (after resetSession) stays empty until startSession, whatever request
\* was in flight when the session was stopped or reset.
C25_StoppedSessionStaysQuiet ==
  [][(page = "interview" /\ ~sessionActive /\ ~sessionActive')
       => /\ Len(messages') <= Len(messages)
          /\ conversationHistory = <<>> => conversationHistory' = <<>>
    ]_vars

FirstQuestionTimers(timers) ==
  Cardinality({i \in 1..Len(timers) : timers[i].index = 0})

QuestionsAsked(h) ==
  LET q == SelectSeq(h, LAMBDA m : m.content[1] = "question")
  IN [j \in 1..Len(q) |-> q[j].content[2]]

\* C28: the questions are appended in list order, each at most once
\* (question i when exactly the questions before it have been asked),
\* question i by agents[agentIndex_i mod n], and at most one timer of the
\* Q&A is pending at any time.
C28_QuestionsInOrder ==
  [][/\ (lastEvent'.op = "askQuestion" /\ lastEvent'.passed)
          => LET i == lastEvent'.n IN
               /\ QuestionsAsked(messages) = [j \in 1..i |-> ToString(j - 1)]
               /\ messages' = Append(messages,
                    AgentMessage(agents[(QA_QUESTIONS[i + 1] % Len(agents)) + 1],
                                 <<"question", ToString(i)>>))
     /\ QuestionsAsked(messages') # QuestionsAsked(messages)
          => lastEvent'.op = "askQuestion"
     /\ Len(qaTimers') <= 1
    ]_vars

\* C28 witness: with two or more agents the last question of the list has
\* been asked after all the others, and no timer is left.
C28_Witness ==
  /\ Len(agents) >= 2
  /\ Len(QuestionsAsked(messages)) = Len(QA_QUESTIONS)
  /\ lastEvent.op = "askQuestion"
  /\ lastEvent.n = Len(QA_QUESTIONS) - 1
  /\ qaTimers = <<>>

C29_WitnessUnlimited ==
  /\ page \in PracticePages
  /\ effectiveDuration = 0
  /\ timeElapsed >= 2
  /\ ~sessionEnded
  /\ isActive

\* C30: the report of generateVoiceAnalysis always holds exactly two
\* entries in areasForImprovement, whatever values were drawn.
C30_TwoAreasForImprovement ==
  analysis # <<>> => Len(analysis[1].areasForImprovement) = 2

=============================================================================
